---------------------------- MODULE Spec2Model ----------------------------
(***************************************************************************)
(* Model of the Event Clock application (src/index.tsx) and of its news    *)
(* twin (src/unnamed/part_000): the scan history, its persistence, the     *)
(* flag updates, the consolidated view and the date extractor.             *)
(*                                                                         *)
(* Texts are sequences of one-character strings, so that lower-casing,     *)
(* stripping and pattern matching are computed character by character.     *)
(* A flag is "U" (the field is absent or undefined), "F" or "T".           *)
(***************************************************************************)
EXTENDS Integers, Sequences, FiniteSets, TLC

VARIABLES
    phase,              \* "mounting" | "ready" | "crashed" (a render threw)
    history,            \* useState<ScanSession[]>: the in-memory history
    storage,            \* localStorage entry 'eventClockHistory'
    events,             \* useState<EventItem[]>: the Scanner view's list
    selectedHistoryId,  \* useState<number | null>
    loading,            \* useState(false)
    error,              \* useState<string | null>; "" is null
    captured,           \* the history closed over by the pending scanEvents
    clock,              \* Date.now(), counted from the opening of the page
    lastOp,             \* name of the handler that ran last
    masterView,         \* the list the consolidated (Master) view last computed
    pending,            \* generator calls awaited by a scanEvents in flight
    historyIs,          \* "array" | "null" | "object": what `history` holds;
                        \* the variable history is <<>> when it is no array
    input,              \* the arguments of the function called last
    output              \* what that call returned

vars == <<phase, history, storage, events, selectedHistoryId, loading, error,
          captured, clock, lastOp, masterView, pending, historyIs, input, output>>

---------------------------------------------------------------------------
(* Bounds *)

\* Number of scans started after the page opened: the instants the clock
\* may show.
MaxScans == 1

---------------------------------------------------------------------------
(* Characters and texts *)

LowerLetters ==
    <<"a","b","c","d","e","f","g","h","i","j","k","l","m",
      "n","o","p","q","r","s","t","u","v","w","x","y","z","é","û">>

UpperLetters ==
    <<"A","B","C","D","E","F","G","H","I","J","K","L","M",
      "N","O","P","Q","R","S","T","U","V","W","X","Y","Z","É","Û">>

DigitChars == <<"0","1","2","3","4","5","6","7","8","9">>

Range(s) == { s[i] : i \in DOMAIN s }

\* String.prototype.toLowerCase on one character.
toLowerChar(c) ==
    IF \E i \in DOMAIN UpperLetters : UpperLetters[i] = c
    THEN LowerLetters[CHOOSE i \in DOMAIN UpperLetters : UpperLetters[i] = c]
    ELSE c

\* String.prototype.toLowerCase.
toLowerCase(s) == [i \in DOMAIN s |-> toLowerChar(s[i])]

IsDigit(c) == c \in Range(DigitChars)

\* The character class [a-z0-9] (ASCII only: accented letters are outside).
IsAZ09(c) == IsDigit(c) \/ \E i \in 1..26 : LowerLetters[i] = c

\* The regular expression class \w: [A-Za-z0-9_].
IsWordChar(c) == IsAZ09(c) \/ c = "_" \/ \E i \in 1..26 : UpperLetters[i] = c

\* The regular expression class \s.
IsSpace(c) == c \in {" ", "\t", "\n"}

DigitVal(c) == (CHOOSE i \in DOMAIN DigitChars : DigitChars[i] = c) - 1

\* parseInt on a run of decimal digits.
RECURSIVE parseInt(_)
parseInt(ds) ==
    IF ds = <<>> THEN 0
    ELSE 10 * parseInt(SubSeq(ds, 1, Len(ds) - 1)) + DigitVal(ds[Len(ds)])

\* s.replace(/[^a-z0-9]/g, "")
RECURSIVE stripNonAlnum(_)
stripNonAlnum(s) ==
    IF s = <<>> THEN <<>>
    ELSE IF IsAZ09(Head(s)) THEN <<Head(s)>> \o stripNonAlnum(Tail(s))
    ELSE stripNonAlnum(Tail(s))

\* Variant of the normalisation that does not lower-case.
stripOnly(s) == stripNonAlnum(s)

\* The normalisation both signature functions apply to a field:
\* field.toLowerCase().replace(/[^a-z0-9]/g, "")
normalizeField(s) == stripNonAlnum(toLowerCase(s))

\* The texts the generator's records are written with.
TxtAb       == <<"A", "b">>
TxtAbBang   == <<"a", " ", "b", "!">>
TxtCd       == <<"C", "d">>
Txt15Nov    == <<"1", "5", " ", "n", "o", "v">>
Txt3Dec9h   == <<"3", " ", "d", "e", "c", " ", "9", "h">>
TxtOld      == <<"o", "l", "d">>
TxtNew      == <<"n", "e", "w">>

TitleTexts == {TxtAb, TxtAbBang, TxtCd}
DateTexts  == {Txt15Nov, Txt3Dec9h}

\* normalizeField, tabulated once over the texts in use.
normalizedTexts == [t \in TitleTexts \cup DateTexts |-> normalizeField(t)]
cleanField(s) ==
    IF s \in DOMAIN normalizedTexts THEN normalizedTexts[s] ELSE normalizeField(s)

\* String.prototype.includes
includes(s, sub) ==
    \E i \in 1..(Len(s) - Len(sub) + 1) : SubSeq(s, i, i + Len(sub) - 1) = sub

---------------------------------------------------------------------------
(* Signatures *)

\* index.tsx: `${cleanTitle}_${cleanDate}`
getEventSignature(event) ==
    cleanField(event.title) \o <<"_">> \o cleanField(event.date)

\* part_000: the headline alone (the record's title field plays the headline).
getNewsSignature(item) == cleanField(item.title)

---------------------------------------------------------------------------
(* The date extractor, parseEventDateInfo                                  *)
(* A reference time `now` is a record [year, month, date], month 0..11.    *)
(* An instant is a number of minutes of the naive local calendar, counted  *)
(* from 2000-01-01 00:00; the Date constructor's overflow rules (day 32,   *)
(* hour 25) are exactly the linear arithmetic below.                       *)

\* The `months` table in its insertion order, the order Object.entries walks.
monthTable ==
    << [name |-> <<"j","a","n">>,     idx |-> 0],
       [name |-> <<"f","é","v">>,     idx |-> 1],
       [name |-> <<"f","e","v">>,     idx |-> 1],
       [name |-> <<"m","a","r">>,     idx |-> 2],
       [name |-> <<"a","v","r">>,     idx |-> 3],
       [name |-> <<"m","a","i">>,     idx |-> 4],
       [name |-> <<"j","u","i","n">>, idx |-> 5],
       [name |-> <<"j","u","i","l">>, idx |-> 6],
       [name |-> <<"a","o","û">>,     idx |-> 7],
       [name |-> <<"a","o","u","t">>, idx |-> 7],
       [name |-> <<"s","e","p">>,     idx |-> 8],
       [name |-> <<"o","c","t">>,     idx |-> 9],
       [name |-> <<"n","o","v">>,     idx |-> 10],
       [name |-> <<"d","é","c">>,     idx |-> 11],
       [name |-> <<"d","e","c">>,     idx |-> 11] >>

minOf(S) == CHOOSE i \in S : \A j \in S : i <= j

\* The month of the first entry of the table among `hits`, else now's month.
firstMonth(hits, now) ==
    IF hits = {} THEN now.month ELSE monthTable[minOf(hits)].idx

\* for (const [mName, mIdx] of Object.entries(months)) if includes: break
detectMonth(cleanStr, now) ==
    firstMonth({ i \in DOMAIN monthTable : includes(cleanStr, monthTable[i].name) }, now)

\* Index of the first character at or after p that is not white space.
RECURSIVE skipSpaces(_, _)
skipSpaces(s, p) ==
    IF p <= Len(s) /\ IsSpace(s[p]) THEN skipSpaces(s, p + 1) ELSE p

\* How many of the at most `most` characters from index p are digits, counted
\* from p on.
RECURSIVE digitRun(_, _, _)
digitRun(s, p, most) ==
    IF most > 0 /\ p <= Len(s) /\ IsDigit(s[p]) THEN 1 + digitRun(s, p + 1, most - 1)
    ELSE 0

noTimeMatch == [ok |-> FALSE]

\* The match: hour digits s[i..i+k-1], minute digits s[q..q+d-1].
timeMatched(s, i, k, q, d) ==
    [ok |-> TRUE, from |-> i, to |-> q + d - 1,
     g1 |-> SubSeq(s, i, i + k - 1), g2 |-> SubSeq(s, q, q + d - 1)]

\* (?:h|:) at index p, then \s*(\d{0,2}).
timeAtSeparator(s, i, k, p) ==
    IF p <= Len(s) /\ s[p] \in {"h", ":"}
    THEN timeMatched(s, i, k, skipSpaces(s, p + 1), digitRun(s, skipSpaces(s, p + 1), 2))
    ELSE noTimeMatch

\* One attempt of /(\d{1,2})\s*(?:h|:)\s*(\d{0,2})/ anchored at index i.
\* \d{1,2} is greedy; giving a digit back never helps, since the character
\* after it would be a digit, which is neither white space nor a separator.
timeMatchAt(s, i) ==
    IF i <= Len(s) /\ IsDigit(s[i])
    THEN timeAtSeparator(s, i, digitRun(s, i, 2), skipSpaces(s, i + digitRun(s, i, 2)))
    ELSE noTimeMatch

\* cleanStr.matchAll(timeRegex): leftmost matches, none overlapping.
RECURSIVE timeMatchesFrom(_, _)
timeMatchesNext(s, i, m) ==
    IF m.ok THEN <<m>> \o timeMatchesFrom(s, m.to + 1)
    ELSE timeMatchesFrom(s, i + 1)
timeMatchesFrom(s, i) ==
    IF i > Len(s) THEN <<>> ELSE timeMatchesNext(s, i, timeMatchAt(s, i))

timeMatches(s) == timeMatchesFrom(s, 1)

\* cleanStr.replace(timeRegex, "TIME")
RECURSIVE maskTimesFrom(_, _)
maskTimesNext(s, i, m) ==
    IF m.ok THEN <<"T","I","M","E">> \o maskTimesFrom(s, m.to + 1)
    ELSE <<s[i]>> \o maskTimesFrom(s, i + 1)
maskTimesFrom(s, i) ==
    IF i > Len(s) THEN <<>> ELSE maskTimesNext(s, i, timeMatchAt(s, i))

strWithoutTimes(s) == maskTimesFrom(s, 1)

\* Whether index i holds a character of \w.
wordAt(s, i) == i >= 1 /\ i <= Len(s) /\ IsWordChar(s[i])

\* A word boundary \b between index i-1 and index i of s.
wordBoundary(s, i) == wordAt(s, i - 1) # wordAt(s, i)

\* One attempt of /\b([1-3][0-9]|[1-9])\b/ anchored at index i: the digits
\* matched, or <<>>.  The two-digit alternative is tried first.
dayMatchAt(s, i) ==
    IF ~(i <= Len(s) /\ wordBoundary(s, i)) THEN <<>>
    ELSE IF /\ s[i] \in {"1", "2", "3"}
            /\ i + 1 <= Len(s) /\ IsDigit(s[i + 1])
            /\ wordBoundary(s, i + 2)
         THEN SubSeq(s, i, i + 1)
    ELSE IF IsDigit(s[i]) /\ s[i] # "0" /\ wordBoundary(s, i + 1)
         THEN SubSeq(s, i, i)
    ELSE <<>>

firstDayMatch(masked, hits) ==
    IF hits = {} THEN <<>> ELSE dayMatchAt(masked, minOf(hits))

\* strWithoutTimes.match(dayRegex): the first match, or <<>> for null.
dayMatches(masked) ==
    firstDayMatch(masked, { i \in 1..Len(masked) : dayMatchAt(masked, i) # <<>> })

IsLeap(y) == (y % 4 = 0 /\ y % 100 # 0) \/ y % 400 = 0

\* The lengths of the months of a year.
monthLengths(leap) ==
    <<31, IF leap THEN 29 ELSE 28, 31, 30, 31, 30, 31, 31, 30, 31, 30, 31>>

\* Days of the first m months of a year.
RECURSIVE daysBeforeMonth(_, _)
daysBeforeMonth(leap, m) ==
    IF m = 0 THEN 0 ELSE monthLengths(leap)[m] + daysBeforeMonth(leap, m - 1)

\* Leap years up to and including year z.
leapYearsTo(z) == (z \div 4) - (z \div 100) + (z \div 400)

\* Leap days in the years 2000 .. y-1.
leapDaysBefore(y) == leapYearsTo(y - 1) - leapYearsTo(1999)

\* new Date(y, m, d, h, mi, 0), as minutes from 2000-01-01 00:00.
makeDate(y, m, d, h, mi) ==
    ((y - 2000) * 365 + leapDaysBefore(y) + daysBeforeMonth(IsLeap(y), m) + (d - 1)) * 1440
    + h * 60 + mi

\* Date.prototype.getHours and getMinutes of an instant.
getHours(t) == (t % 1440) \div 60
getMinutes(t) == t % 60

\* The value endHour keeps when no second time is found.
NoEndHour == 0 - 1

\* Lines 105-117: the hours and minutes of the first two matches.
startHourOf(tm) == IF Len(tm) > 0 THEN parseInt(tm[1].g1) ELSE 9
startMinOf(tm)  == IF Len(tm) > 0 THEN parseInt(tm[1].g2) ELSE 0
endHourOf(tm)   == IF Len(tm) > 1 THEN parseInt(tm[2].g1) ELSE NoEndHour
endMinOf(tm)    == IF Len(tm) > 1 THEN parseInt(tm[2].g2) ELSE 0

\* if (endDate < startDate) endDate.setDate(endDate.getDate() + 1)
overnight(startDate, sameDay) ==
    IF sameDay < startDate THEN sameDay + 1440 ELSE sameDay

\* Lines 123-133: the end, from the start and the day's midnight.
resolveEnd(startDate, midnight, endHour, endMin) ==
    IF endHour # NoEndHour
    THEN overnight(startDate, midnight + endHour * 60 + endMin)
    ELSE midnight + (getHours(startDate) + 2) * 60 + getMinutes(startDate)

startAndEnd(startDate, midnight, endHour, endMin) ==
    [start |-> startDate, end |-> resolveEnd(startDate, midnight, endHour, endMin)]

\* Lines 120-135.
buildDates(year, month, day, startHour, startMin, endHour, endMin) ==
    startAndEnd(makeDate(year, month, day, startHour, startMin),
                makeDate(year, month, day, 0, 0), endHour, endMin)

\* Lines 88-98: the day (tomorrow when none is found) and the year rollover.
resolveDate(month, dm, tm, now) ==
    buildDates(IF month < now.month THEN now.year + 1 ELSE now.year,
               month,
               IF dm # <<>> THEN parseInt(dm) ELSE now.date + 1,
               startHourOf(tm), startMinOf(tm), endHourOf(tm), endMinOf(tm))

parseCleanStr(cleanStr, now) ==
    resolveDate(detectMonth(cleanStr, now),
                dayMatches(strWithoutTimes(cleanStr)),
                timeMatches(cleanStr), now)

parseEventDateInfo(dateStr, now) == parseCleanStr(toLowerCase(dateStr), now)

\* Reference times (new Date()) at which dates are parsed.
ReferenceTimes ==
    { [year |-> 2024, month |-> 10, date |-> 20],
      [year |-> 2024, month |-> 11, date |-> 31] }

\* parseEventDateInfo, tabulated once over the date texts in use.
parsedDates ==
    [d \in DateTexts, now \in ReferenceTimes |-> parseEventDateInfo(d, now)]
dateInfo(dateStr, now) ==
    IF <<dateStr, now>> \in DOMAIN parsedDates
    THEN parsedDates[dateStr, now] ELSE parseEventDateInfo(dateStr, now)

---------------------------------------------------------------------------
(* Records, sessions and the persisted blob                                *)
(* An EventItem is [title, date, description, addedToCalendar]; the other  *)
(* content fields of the interface (location, price, url, tags) are copied *)
(* by the same spreads as description and are carried by it.               *)

\* useState<number | null>(null): no session selected.
NoSelection == 0

\* event.addedToCalendar read as a condition (undefined is falsy).
IsAdded(event) == event.addedToCalendar = "T"

\* The JavaScript value of a boolean `added`.
FlagOf(added) == IF added THEN "T" ELSE "F"

\* a || b on flag values: the first operand if it is truthy, else the second.
jsOr(a, b) == IF a = "T" THEN a ELSE b

\* Every field of a record but the flag.
Content(e) == [f \in DOMAIN e \ {"addedToCalendar"} |-> e[f]]

\* Variant that never clears a flag that is set.
raiseFlag(e, added) ==
    [f \in DOMAIN e \cup {"addedToCalendar"} |->
        IF f = "addedToCalendar"
        THEN (IF IsAdded(e) THEN "T" ELSE FlagOf(added)) ELSE e[f]]

\* { ...e, addedToCalendar: added }
withFlag(e, added) ==
    [f \in DOMAIN e \cup {"addedToCalendar"} |->
        IF f = "addedToCalendar" THEN FlagOf(added) ELSE e[f]]

\* Variant of the serialisation that leaves the flag out of every record.
stringifyWithoutFlag(e) == Content(e)

\* JSON.stringify of one record: a property whose value is undefined is left out.
stringifyItem(e) ==
    IF "addedToCalendar" \in DOMAIN e /\ e.addedToCalendar = "U"
    THEN Content(e) ELSE e

\* JSON.parse of one record; reading the flag of a record without it gives
\* undefined.
parseItem(o) ==
    IF "title" \in DOMAIN o /\ "addedToCalendar" \notin DOMAIN o
    THEN [f \in DOMAIN o \cup {"addedToCalendar"} |->
            IF f = "addedToCalendar" THEN "U" ELSE o[f]]
    ELSE o

\* JSON.stringify(updatedHistory)
stringify(h) ==
    [i \in DOMAIN h |->
        [id |-> h[i].id, dateStr |-> h[i].dateStr,
         events |-> [k \in DOMAIN h[i].events |-> stringifyItem(h[i].events[k])]]]

\* JSON.parse(savedHistory) of a blob the application wrote
parseHistory(b) ==
    [i \in DOMAIN b |->
        [id |-> b[i].id, dateStr |-> b[i].dateStr,
         events |-> [k \in DOMAIN b[i].events |-> parseItem(b[i].events[k])]]]

\* localStorage.setItem('eventClockHistory', JSON.stringify(h))
setItem(h) == [present |-> TRUE, blob |-> stringify(h)]

\* localStorage.removeItem('eventClockHistory')
removeItem == [present |-> FALSE, blob |-> <<>>]

\* The ids of the sessions of a history.
SessionIds(h) == { h[i].id : i \in DOMAIN h }

---------------------------------------------------------------------------
(* The handlers, as functions of the state their closure reads             *)

\* saveScanToHistory: [newSession, ...history]
saveScanToHistory(h, newEvents, t) ==
    <<[id |-> t, dateStr |-> t, events |-> newEvents]>> \o h

\* updateEventInHistory, step 1: the Scanner view's copy.  Writing index i
\* of the copy always yields a record at i, spread from the old one.
updateCurrentScan(evs, eventIndex, added) ==
    [evs EXCEPT ![eventIndex] = withFlag(evs[eventIndex], added)]

\* Variant that takes the latest session whichever view the toggle is from.
latestHistoryId(h, selected, isCurrentScan) ==
    IF Len(h) > 0 THEN h[1].id ELSE selected

\* isCurrentScan && history.length > 0 ? history[0].id : selectedHistoryId
targetHistoryId(h, selected, isCurrentScan) ==
    IF isCurrentScan /\ Len(h) > 0 THEN h[1].id ELSE selected

\* Variant without the test `if (newEvents[eventIndex])`: assigning past the
\* end of the copy adds a record that has nothing but the flag.
assignSessionEvent(evs, eventIndex, added) ==
    IF eventIndex \in DOMAIN evs
    THEN [evs EXCEPT ![eventIndex] = withFlag(evs[eventIndex], added)]
    ELSE Append(evs, [title |-> <<>>, date |-> <<>>, description |-> <<>>,
                      addedToCalendar |-> FlagOf(added)])

\* const newEvents = [...session.events];
\* if (newEvents[eventIndex]) newEvents[eventIndex] = {..., addedToCalendar}
updateSessionEvents(evs, eventIndex, added) ==
    IF eventIndex \in DOMAIN evs
    THEN [evs EXCEPT ![eventIndex] = withFlag(evs[eventIndex], added)]
    ELSE evs

\* updateEventInHistory, step 2: history.map over the target session.
updateEventInHistory(h, target, eventIndex, added) ==
    [i \in DOMAIN h |->
        IF h[i].id = target
        THEN [h[i] EXCEPT !.events = updateSessionEvents(h[i].events, eventIndex, added)]
        ELSE h[i]]

\* Variant that drops the signature test of the inner map.
updateEvery(evs, signature, added) ==
    [k \in DOMAIN evs |-> withFlag(evs[k], added)]

\* The inner session.events.map of updateEventGlobal.
updateMatching(evs, signature, added) ==
    [k \in DOMAIN evs |->
        IF getEventSignature(evs[k]) = signature
        THEN withFlag(evs[k], added) ELSE evs[k]]

\* Variant that inverts each matching flag instead of writing `added`.
invertEventGlobal(h, event, added) ==
    [i \in DOMAIN h |->
        [h[i] EXCEPT !.events =
            [k \in DOMAIN h[i].events |->
                IF getEventSignature(h[i].events[k]) = getEventSignature(event)
                THEN withFlag(h[i].events[k], ~IsAdded(h[i].events[k]))
                ELSE h[i].events[k]]]]

\* updateEventGlobal: history.map over every session with a match.
updateEventGlobal(h, event, added) ==
    LET signature == getEventSignature(event)
    IN  [i \in DOMAIN h |->
            IF \E k \in DOMAIN h[i].events :
                  getEventSignature(h[i].events[k]) = signature
            THEN [h[i] EXCEPT !.events = updateMatching(h[i].events, signature, added)]
            ELSE h[i]]

\* part_000: the inner session.items.map of updateItemGlobal.
updateMatchingItems(items, signature, read) ==
    [k \in DOMAIN items |->
        IF getNewsSignature(items[k]) = signature
        THEN withFlag(items[k], read) ELSE items[k]]

\* part_000, updateItemGlobal (a session's items are its `events`, the flag
\* `read` is the record's flag field).
updateItemGlobal(h, item, read) ==
    LET signature == getNewsSignature(item)
    IN  [i \in DOMAIN h |->
            IF \E k \in DOMAIN h[i].events :
                  getNewsSignature(h[i].events[k]) = signature
            THEN [h[i] EXCEPT !.events = updateMatchingItems(h[i].events, signature, read)]
            ELSE h[i]]

\* Variant of the filter that drops the first session, whatever its id.
deleteNewest(h, id) == Tail(h)

\* deleteHistoryItem: history.filter(item => item.id !== id)
RECURSIVE deleteHistoryItem(_, _)
deleteHistoryItem(h, id) ==
    IF h = <<>> THEN <<>>
    ELSE IF Head(h).id # id THEN <<Head(h)>> \o deleteHistoryItem(Tail(h), id)
    ELSE deleteHistoryItem(Tail(h), id)

\* deleteHistoryItem: the selection after the deletion.
selectionAfterDelete(selected, updatedHistory, id) ==
    IF selected = id
    THEN (IF Len(updatedHistory) > 0 THEN updatedHistory[1].id ELSE NoSelection)
    ELSE selected

---------------------------------------------------------------------------
(* The consolidated views                                                  *)

\* Array.prototype.sort with a comparator a.key - b.key: a stable sort.
\* The argument is a sequence of [key, val] pairs.
RECURSIVE insertByKey(_, _)
insertByKey(sorted, p) ==
    IF sorted = <<>> THEN <<p>>
    ELSE IF Head(sorted).key <= p.key
         THEN <<Head(sorted)>> \o insertByKey(Tail(sorted), p)
         ELSE <<p>> \o sorted

RECURSIVE sortByKey(_)
sortByKey(pairs) ==
    IF pairs = <<>> THEN <<>>
    ELSE insertByKey(sortByKey(SubSeq(pairs, 1, Len(pairs) - 1)), pairs[Len(pairs)])

valuesOf(pairs) == [i \in DOMAIN pairs |-> pairs[i].val]

\* Variant that folds the sessions in the order they are stored.
storedOrder(h) == h

\* [...history].sort((a, b) => a.id - b.id)
sortOldestFirst(h) ==
    valuesOf(sortByKey([i \in DOMAIN h |-> [key |-> h[i].id, val |-> h[i]]]))

\* [...history].sort((a, b) => b.id - a.id)
sortNewestFirst(h) ==
    valuesOf(sortByKey([i \in DOMAIN h |-> [key |-> 0 - h[i].id, val |-> h[i]]]))

\* The records of the sessions of h, session after session.
RECURSIVE allRecords(_)
allRecords(h) ==
    IF h = <<>> THEN <<>> ELSE Head(h).events \o allRecords(Tail(h))

\* A Map<string, EventItem> is a sequence of [sig, evt] entries in insertion
\* order; Map.set on a present key keeps the key's place.
mapHas(m, sig) == \E k \in DOMAIN m : m[k].sig = sig
mapGet(m, sig) == m[CHOOSE k \in DOMAIN m : m[k].sig = sig].evt
\* Variant of Map.set that never replaces an entry.
mapAppend(m, sig, evt) == Append(m, [sig |-> sig, evt |-> evt])
mapSet(m, sig, evt) ==
    IF mapHas(m, sig)
    THEN [k \in DOMAIN m |-> IF m[k].sig = sig THEN [sig |-> sig, evt |-> evt] ELSE m[k]]
    ELSE Append(m, [sig |-> sig, evt |-> evt])
mapValues(m) == [k \in DOMAIN m |-> m[k].evt]

\* Variant that lets the newer record overwrite the flag too.
overwriteEvent(m, evt) == mapSet(m, getEventSignature(evt), evt)

\* index.tsx, the body of the inner forEach: the newer record's fields, and
\* existing.addedToCalendar || evt.addedToCalendar.
mergeEvent(m, evt) ==
    LET sig == getEventSignature(evt)
    IN  IF mapHas(m, sig)
        THEN mapSet(m, sig,
                [evt EXCEPT !.addedToCalendar =
                    jsOr(mapGet(m, sig).addedToCalendar, evt.addedToCalendar)])
        ELSE mapSet(m, sig, evt)

RECURSIVE foldEvents(_, _)
foldEvents(m, evs) ==
    IF evs = <<>> THEN m ELSE foldEvents(mergeEvent(m, Head(evs)), Tail(evs))

\* allEvents.sort by parseEventDateInfo(e.date).start
sortByStart(evs, now) ==
    valuesOf(sortByKey([i \in DOMAIN evs |->
        [key |-> dateInfo(evs[i].date, now).start, val |-> evs[i]]]))

\* now.setHours(0,0,0,0); now.setDate(now.getDate() - 1)
yesterdayMidnight(now) == makeDate(now.year, now.month, now.date - 1, 0, 0)

RECURSIVE dropPast(_, _)
dropPast(evs, now) ==
    IF evs = <<>> THEN <<>>
    ELSE IF dateInfo(Head(evs).date, now).start >= yesterdayMidnight(now)
         THEN <<Head(evs)>> \o dropPast(Tail(evs), now)
         ELSE dropPast(Tail(evs), now)

\* index.tsx, masterEvents
masterEvents(h, hidePastEvents, now) ==
    LET uniqueMap == foldEvents(<<>>, allRecords(sortOldestFirst(h)))
        allEvents == sortByStart(mapValues(uniqueMap), now)
    IN  IF hidePastEvents THEN dropPast(allEvents, now) ELSE allEvents

\* part_000, the body of the inner forEach: the first-seen (newer) record is
\* kept, and marked read when an older copy was read.
mergeItem(m, item) ==
    LET sig == getNewsSignature(item)
    IN  IF ~mapHas(m, sig) THEN mapSet(m, sig, item)
        ELSE IF IsAdded(item) /\ ~IsAdded(mapGet(m, sig))
             THEN mapSet(m, sig, [mapGet(m, sig) EXCEPT !.addedToCalendar = "T"])
             ELSE m

RECURSIVE foldItems(_, _)
foldItems(m, items) ==
    IF items = <<>> THEN m ELSE foldItems(mergeItem(m, Head(items)), Tail(items))

\* i.criticality === "HIGH"
isHigh(i) == "criticality" \in DOMAIN i /\ i.criticality = "HIGH"

RECURSIVE keepHigh(_)
keepHigh(items) ==
    IF items = <<>> THEN <<>>
    ELSE IF isHigh(Head(items)) THEN <<Head(items)>> \o keepHigh(Tail(items))
    ELSE keepHigh(Tail(items))

\* part_000, masterItems (the flag `read` is the record's flag field)
masterItems(h, onlyHighPriority) ==
    LET allItems == mapValues(foldItems(<<>>, allRecords(sortNewestFirst(h))))
    IN  IF onlyHighPriority THEN keepHigh(allItems) ELSE allItems

---------------------------------------------------------------------------
(* The generator's text and its extraction                                 *)
(* A text is a sequence of atoms: "tick" (one backtick), "json" (the tag), *)
(* "\n", " ", "[", "]", ",", a word of prose "x", and JSON value atoms: an *)
(* object literal of a record ("R1", "R2", "R3"), a string literal "STR",  *)
(* the literal "null" and the object literal "{}".                         *)

\* The records the generator's object literals denote; none carries a flag.
\* "R4" is a record of an earlier visit: the title of R1 on the date of R3.
recordOfAtom(a) ==
    CASE a = "R1" -> [title |-> TxtAb, date |-> Txt15Nov, description |-> TxtOld,
                      addedToCalendar |-> "U"]
      [] a = "R2" -> [title |-> TxtAbBang, date |-> Txt15Nov, description |-> TxtNew,
                      addedToCalendar |-> "U"]
      [] a = "R3" -> [title |-> TxtCd, date |-> Txt3Dec9h, description |-> TxtOld,
                      addedToCalendar |-> "U"]
      [] a = "R4" -> [title |-> TxtAb, date |-> Txt3Dec9h, description |-> TxtNew,
                      addedToCalendar |-> "U"]

RecordAtoms == {"R1", "R2", "R3"}

\* The characters of the string literal "STR" denotes.
stringOfAtom == << [ch |-> "o"], [ch |-> "k"] >>

isFence(text, i) ==
    i >= 1 /\ i + 2 <= Len(text) /\ text[i] = "tick" /\ text[i + 1] = "tick" /\ text[i + 2] = "tick"

\* textResponse.match(/```json\n([\s\S]*?)\n```/): group 1 of the leftmost
\* match, the shortest from its start.
matchJsonFence(text) ==
    LET closes(i) == { j \in (i + 5)..Len(text) : text[j] = "\n" /\ isFence(text, j + 1) }
        starts == { i \in 1..Len(text) :
                      /\ isFence(text, i) /\ i + 4 <= Len(text)
                      /\ text[i + 3] = "json" /\ text[i + 4] = "\n"
                      /\ closes(i) # {} }
    IN  IF starts = {} THEN [ok |-> FALSE, group |-> <<>>]
        ELSE LET i == minOf(starts)
             IN  [ok |-> TRUE, group |-> SubSeq(text, i + 5, minOf(closes(i)) - 1)]

\* textResponse.match(/```([\s\S]*?)```/)
matchAnyFence(text) ==
    LET closes(i) == { j \in (i + 3)..Len(text) : isFence(text, j) }
        starts == { i \in 1..Len(text) : isFence(text, i) /\ closes(i) # {} }
    IN  IF starts = {} THEN [ok |-> FALSE, group |-> <<>>]
        ELSE LET i == minOf(starts)
             IN  [ok |-> TRUE, group |-> SubSeq(text, i + 3, minOf(closes(i)) - 1)]

RECURSIVE dropWhitespace(_)
dropWhitespace(t) ==
    IF t = <<>> THEN <<>>
    ELSE IF IsSpace(Head(t)) THEN dropWhitespace(Tail(t))
    ELSE <<Head(t)>> \o dropWhitespace(Tail(t))

\* JSON.parse: [kind |-> "array" | "string" | "object" | "null", items], or
\* [kind |-> "SyntaxError"].  White space may surround every token.
jsonParse(t) ==
    LET b     == dropWhitespace(t)
        inner == SubSeq(b, 2, Len(b) - 1)
        isList == \/ inner = <<>>
                  \/ /\ Len(inner) % 2 = 1
                     /\ \A k \in DOMAIN inner :
                           IF k % 2 = 1 THEN inner[k] \in RecordAtoms ELSE inner[k] = ","
    IN  IF Len(b) = 1 /\ b[1] \in RecordAtoms
          THEN [kind |-> "object", items |-> <<>>]
        ELSE IF b = <<"{}">>  THEN [kind |-> "object", items |-> <<>>]
        ELSE IF b = <<"null">> THEN [kind |-> "null", items |-> <<>>]
        ELSE IF b = <<"STR">> THEN [kind |-> "string", items |-> stringOfAtom]
        ELSE IF Len(b) >= 2 /\ b[1] = "[" /\ b[Len(b)] = "]" /\ isList
          THEN [kind |-> "array",
                items |-> [k \in 1..((Len(inner) + 1) \div 2) |->
                              recordOfAtom(inner[2 * k - 1])]]
        ELSE [kind |-> "SyntaxError", items |-> <<>>]

\* indexOf / lastIndexOf, 1-based; 0 when the atom does not occur.
indexOf(text, a) ==
    IF \E i \in DOMAIN text : text[i] = a
    THEN minOf({ i \in DOMAIN text : text[i] = a }) ELSE 0
lastIndexOf(text, a) ==
    IF \E i \in DOMAIN text : text[i] = a
    THEN CHOOSE i \in DOMAIN text : text[i] = a /\ \A j \in DOMAIN text : text[j] = a => j <= i
    ELSE 0

\* textResponse.substring(arrayStart, arrayEnd + 1): substring swaps its
\* arguments when the first is the larger.
substringStartEnd(text, arrayStart, arrayEnd) ==
    IF arrayStart <= arrayEnd THEN SubSeq(text, arrayStart, arrayEnd)
    ELSE SubSeq(text, arrayEnd + 1, arrayStart - 1)

\* Lines 504-526: the value the two strategies give, or the error thrown.
extractEvents(textResponse) ==
    LET m1 == matchJsonFence(textResponse)
        m2 == matchAnyFence(textResponse)
        jsonString == IF m1.ok THEN m1.group
                      ELSE IF m2.ok THEN m2.group ELSE textResponse
        first == jsonParse(jsonString)
        arrayStart == indexOf(textResponse, "[")
        arrayEnd   == lastIndexOf(textResponse, "]")
    IN  IF first.kind # "SyntaxError" THEN first
        ELSE IF arrayStart # 0 /\ arrayEnd # 0
             THEN jsonParse(substringStartEnd(textResponse, arrayStart, arrayEnd))
        ELSE [kind |-> "FormatError", items |-> <<>>]

\* Lines 528-538: what the scan does with the extracted value.
\*   commit: whether setEvents and saveScanToHistory run;
\*   error:  the message setError receives, "" when none.
scanOutcome(textResponse) ==
    LET v == extractEvents(textResponse)
    IN  IF v.kind \in {"SyntaxError", "FormatError"}
          THEN [commit |-> FALSE, items |-> <<>>, error |-> v.kind]
        ELSE IF v.kind = "null"
          THEN [commit |-> FALSE, items |-> <<>>, error |-> "TypeError"]
        ELSE IF v.kind \in {"array", "string"} /\ Len(v.items) > 0
          THEN [commit |-> TRUE, items |-> v.items, error |-> ""]
        ELSE [commit |-> FALSE, items |-> <<>>, error |-> "Aucun événement trouvé."]

\* Whether a committed value renders: events.map and session.events.forEach
\* exist only on arrays.
rendersAfterCommit(textResponse) == extractEvents(textResponse).kind = "array"

ResponseTexts ==
    { <<"tick", "tick", "tick", "json", "\n", "[", "R1", "]", "\n", "tick", "tick", "tick">>,
      <<"x", "tick", "tick", "tick", "[", "R2", ",", " ", "R3", "]", "tick", "tick", "tick">>,
      <<"tick", "tick", "tick", "json", " ", "[", "R1", "]", "tick", "tick", "tick">>,
      <<"x", " ", "[", "R1", "]", " ", "x">>,
      <<"[", "R2", ",", "R3", "]">>,
      <<"[", " ", "]">>,
      <<"x">>,
      <<>>,
      <<"x", "[", "R1">>,
      <<"]", "x", "[">>,
      <<"{}">>,
      <<"R1">>,
      <<"null">>,
      <<"STR">> }

---------------------------------------------------------------------------
(* The application                                                         *)

\* A blob that is no stringified session list: the text `a`.
corruptBlob(a) == << [text |-> a] >>

\* JSON.parse(savedHistory): the kind of value the blob denotes, or
\* "SyntaxError".
blobKind(b) ==
    IF Len(b) > 0 /\ "text" \in DOMAIN b[1]
    THEN (CASE b[1].text = "null" -> "null"
            [] b[1].text = "{}" -> "object"
            [] OTHER -> "SyntaxError")
    ELSE "array"

\* What localStorage may hold when the page opens: nothing, the history an
\* earlier visit wrote, newest session first, or a blob that is no session
\* list (not JSON, null, an object).  Ids are Date.now() values,
\* counted from the opening of the page: those of earlier visits are negative.
InitialStorage ==
    { removeItem,
      setItem(<< [id |-> 0 - 1, dateStr |-> 0 - 1,
                  events |-> << withFlag(recordOfAtom("R1"), TRUE) >>] >>),
      [present |-> TRUE, blob |-> corruptBlob("{oops")],
      [present |-> TRUE, blob |-> corruptBlob("null")],
      [present |-> TRUE, blob |-> corruptBlob("{}")] }

Init ==
    /\ phase = "mounting"
    /\ history = <<>>
    /\ storage \in InitialStorage
    /\ events = <<>>
    /\ selectedHistoryId = NoSelection
    /\ loading = FALSE
    /\ error = ""
    /\ captured = <<>>
    /\ clock = 1
    /\ lastOp = "init"
    /\ masterView = <<>>
    /\ pending = 0
    /\ historyIs = "array"
    /\ input = <<>>
    /\ output = <<>>

\* The mount effect that loads the history.  setHistory(parsed) comes before
\* the read of parsed.length, which throws on null into the catch; the
\* render that follows a history that is no array throws on [...history].
loadHistory ==
    /\ phase = "mounting"
    /\ IF storage.present /\ blobKind(storage.blob) = "array"
       THEN /\ history' = parseHistory(storage.blob)
            /\ selectedHistoryId' =
                  IF Len(history') > 0 THEN history'[1].id ELSE selectedHistoryId
            /\ UNCHANGED historyIs
            /\ phase' = "ready"
       ELSE IF storage.present /\ blobKind(storage.blob) \in {"null", "object"}
       THEN /\ historyIs' = blobKind(storage.blob)
            /\ phase' = "crashed"
            /\ UNCHANGED <<history, selectedHistoryId>>
       ELSE /\ phase' = "ready"
            /\ UNCHANGED <<history, selectedHistoryId, historyIs>>
    /\ lastOp' = "loadHistory"
    /\ UNCHANGED <<masterView, pending, input, output>>
    /\ UNCHANGED <<storage, events, loading, error, captured, clock>>

\* Variant whose button is not disabled while loading.
scanWhileLoading(limit) ==
    /\ phase = "ready"
    /\ clock <= limit
    /\ loading' = TRUE
    /\ error' = ""
    /\ events' = <<>>
    /\ captured' = history
    /\ pending' = pending + 1
    /\ clock' = clock + 1
    /\ lastOp' = "scanEvents"
    /\ UNCHANGED <<masterView, historyIs, input, output>>
    /\ UNCHANGED <<phase, history, storage, selectedHistoryId>>

\* scanEvents up to its await, as long as the clock is within `limit`; the
\* button is disabled while loading.  The continuation closes over this
\* render's history.
scanEventsWithin(limit) ==
    /\ phase = "ready"
    /\ ~loading
    /\ clock <= limit
    /\ loading' = TRUE
    /\ error' = ""
    /\ events' = <<>>
    /\ captured' = history
    /\ pending' = pending + 1
    /\ clock' = clock + 1
    /\ lastOp' = "scanEvents"
    /\ UNCHANGED <<masterView, historyIs, input, output>>
    /\ UNCHANGED <<phase, history, storage, selectedHistoryId>>

scanEvents == scanEventsWithin(MaxScans)

\* The generator call resolves with a text: the rest of scanEvents.
generateContentResolved(textResponse) ==
    /\ phase = "ready"
    /\ pending > 0
    /\ pending' = pending - 1
    /\ LET out == scanOutcome(textResponse)
       IN  IF out.commit
           THEN /\ events' = out.items
                /\ history' = saveScanToHistory(captured, out.items, clock)
                /\ storage' = setItem(history')
                /\ phase' = IF rendersAfterCommit(textResponse) THEN "ready" ELSE "crashed"
                /\ lastOp' = "scanCommitted"
                /\ UNCHANGED error
           ELSE /\ error' = out.error
                /\ lastOp' = "scanFailed"
                /\ UNCHANGED <<events, history, storage, phase>>
    /\ loading' = FALSE
    /\ captured' = <<>>
    /\ UNCHANGED <<selectedHistoryId, clock, masterView, historyIs, input, output>>

\* The generator call rejects: the catch and finally blocks.
generateContentRejected ==
    /\ phase = "ready"
    /\ pending > 0
    /\ pending' = pending - 1
    /\ error' = "Une erreur est survenue lors de la recherche."
    /\ loading' = FALSE
    /\ captured' = <<>>
    /\ lastOp' = "scanFailed"
    /\ UNCHANGED <<masterView, historyIs, input, output>>
    /\ UNCHANGED <<phase, history, storage, events, selectedHistoryId, clock>>

\* updateEventInHistory(eventIndex, added, isCurrentScan) as one step.
updateEventInHistoryStep(eventIndex, added, isCurrentScan) ==
    LET target == targetHistoryId(history, selectedHistoryId, isCurrentScan)
    IN  /\ events' = IF isCurrentScan
                     THEN updateCurrentScan(events, eventIndex, added) ELSE events
        /\ IF target # NoSelection
           THEN /\ history' = updateEventInHistory(history, target, eventIndex, added)
                /\ storage' = setItem(history')
           ELSE UNCHANGED <<history, storage>>
        /\ UNCHANGED <<phase, selectedHistoryId, loading, error, captured, clock>>

\* A card of the Scanner view is toggled: EventCard.handleToggle passes the
\* negation of the flag it shows.
toggleScannerCard(idx) ==
    /\ phase = "ready"
    /\ idx \in DOMAIN events
    /\ updateEventInHistoryStep(idx, ~IsAdded(events[idx]), TRUE)
    /\ lastOp' = "toggleScannerCard"
    /\ UNCHANGED <<masterView, pending, historyIs, input, output>>

\* history.find(h => h.id === selectedHistoryId)
selectedSession ==
    history[minOf({ i \in DOMAIN history : history[i].id = selectedHistoryId })]

\* A card of the History view is toggled.
toggleHistoryCard(idx) ==
    /\ phase = "ready"
    /\ selectedHistoryId \in SessionIds(history)
    /\ idx \in DOMAIN selectedSession.events
    /\ updateEventInHistoryStep(idx, ~IsAdded(selectedSession.events[idx]), FALSE)
    /\ lastOp' = "toggleHistoryCard"
    /\ UNCHANGED <<masterView, pending, historyIs, input, output>>

\* updateEventGlobal(event, added) as one step.
updateEventGlobalStep(event, added) ==
    /\ history' = updateEventGlobal(history, event, added)
    /\ storage' = setItem(history')
    /\ UNCHANGED <<phase, events, selectedHistoryId, loading, error, captured, clock>>

\* The rows the Master view may show: hidePastEvents and the time of the
\* render are free.  A crashed application shows nothing.
masterRows ==
    IF phase = "ready"
    THEN UNION { Range(masterEvents(history, hide, now)) :
                   hide \in BOOLEAN, now \in ReferenceTimes }
    ELSE {}

\* The button of a row of the Master view: newState = !evt.addedToCalendar
toggleMasterRow(evt) ==
    /\ phase = "ready"
    /\ updateEventGlobalStep(evt, ~IsAdded(evt))
    /\ lastOp' = "toggleMasterRow"
    /\ UNCHANGED <<masterView, pending, historyIs, input, output>>

\* A session of the History view's list is clicked.
selectSession(id) ==
    /\ phase = "ready"
    /\ id \in SessionIds(history)
    /\ selectedHistoryId' = id
    /\ lastOp' = "selectSession"
    /\ UNCHANGED <<masterView, pending, historyIs, input, output>>
    /\ UNCHANGED <<phase, history, storage, events, loading, error, captured, clock>>

\* deleteHistoryItem(id, e) as one step.
deleteSession(id) ==
    /\ phase = "ready"
    /\ id \in SessionIds(history)
    /\ history' = deleteHistoryItem(history, id)
    /\ storage' = setItem(history')
    /\ selectedHistoryId' = selectionAfterDelete(selectedHistoryId, history', id)
    /\ lastOp' = "deleteHistoryItem"
    /\ UNCHANGED <<masterView, pending, historyIs, input, output>>
    /\ UNCHANGED <<phase, events, loading, error, captured, clock>>

\* Variant of clearHistory without setSelectedHistoryId(null).
clearHistoryKeepsSelection ==
    /\ phase = "ready"
    /\ Len(history) > 0
    /\ history' = <<>>
    /\ storage' = removeItem
    /\ lastOp' = "clearHistory"
    /\ UNCHANGED <<masterView, pending, historyIs, input, output>>
    /\ UNCHANGED <<phase, events, selectedHistoryId, loading, error, captured, clock>>

\* clearHistory, confirmed; the button shows only with a non-empty history.
clearHistory ==
    /\ phase = "ready"
    /\ Len(history) > 0
    /\ history' = <<>>
    /\ selectedHistoryId' = NoSelection
    /\ storage' = removeItem
    /\ lastOp' = "clearHistory"
    /\ UNCHANGED <<masterView, pending, historyIs, input, output>>
    /\ UNCHANGED <<phase, events, loading, error, captured, clock>>

Next ==
    \/ loadHistory
    \/ scanEvents
    \/ \E textResponse \in ResponseTexts : generateContentResolved(textResponse)
    \/ generateContentRejected
    \/ \E idx \in 1..2 : toggleScannerCard(idx)
    \/ \E idx \in 1..2 : toggleHistoryCard(idx)
    \/ \E evt \in masterRows : toggleMasterRow(evt)
    \/ \E id \in SessionIds(history) : selectSession(id)
    \/ \E id \in SessionIds(history) : deleteSession(id)
    \/ clearHistory

Spec == Init /\ [][Next]_vars

---------------------------------------------------------------------------
(* Scans one after the other: the page is opened, scans are started and    *)
(* end, the history is cleared.                                            *)

\* Number of scans started after the page opened.
MaxScanRuns == 2

NextScans ==
    \/ loadHistory
    \/ scanEventsWithin(MaxScanRuns)
    \/ \E textResponse \in ResponseTexts : generateContentResolved(textResponse)
    \/ generateContentRejected
    \/ clearHistory

SpecScans == Init /\ [][NextScans]_vars


---------------------------------------------------------------------------
(* The consolidation and the global updates over arbitrary stored         *)
(* histories: sessions with distinct ids in any order of storage, flags   *)
(* of every value, signatures repeated across and inside sessions.        *)

\* Sessions of a stored history, and the ids they may bear.
MaxSessions == 2

flagged(a, f) == [recordOfAtom(a) EXCEPT !.addedToCalendar = f]

SessionLists ==
    { <<flagged("R1", "T")>>, <<flagged("R2", "F")>>, <<flagged("R2", "U")>>,
      <<flagged("R3", "F")>>, <<flagged("R4", "T")>>,
      <<flagged("R1", "T"), flagged("R2", "F")>>,
      <<flagged("R1", "F"), flagged("R3", "T")>> }

DistinctIds(n) ==
    { ids \in [1..n -> 1..MaxSessions] :
        \A i, j \in 1..n : ids[i] = ids[j] => i = j }

StoredHistories ==
    UNION { { [i \in 1..n |-> [id |-> ids[i], dateStr |-> ids[i], events |-> evs[i]]] :
                ids \in DistinctIds(n), evs \in [1..n -> SessionLists] } :
            n \in 0..MaxSessions }

\* The records a global update may be asked for.
UpdateRecords == { recordOfAtom(a) : a \in {"R1", "R2", "R3", "R4"} }

InitStored ==
    /\ phase = "ready"
    /\ history \in StoredHistories
    /\ storage = setItem(history)
    /\ events = <<>>
    /\ selectedHistoryId = NoSelection
    /\ loading = FALSE
    /\ error = ""
    /\ captured = <<>>
    /\ clock = 1
    /\ lastOp = "init"
    /\ masterView = <<>>
    /\ pending = 0
    /\ historyIs = "array"
    /\ input = <<>>
    /\ output = <<>>

\* Variant of the copy: Array.prototype.sort called on the state array.
sortedInPlace(h, sorted) == sorted

\* [...history].sort(...): the sort works on a copy; the array the state
\* refers to keeps its order, and the fold builds new records with spreads.
spreadThenSort(h, sorted) == h

\* index.tsx: the Master view computes masterEvents.
renderMasterEvents(hidePastEvents, now) ==
    /\ lastOp = "init"
    /\ masterView' = masterEvents(history, hidePastEvents, now)
    /\ history' = spreadThenSort(history, sortOldestFirst(history))
    /\ input' = [filter |-> hidePastEvents, now |-> now]
    /\ lastOp' = IF hidePastEvents THEN "masterEventsFiltered" ELSE "masterEvents"
    /\ UNCHANGED <<phase, storage, events, selectedHistoryId, loading,
                   error, captured, clock, pending, historyIs, output>>

\* part_000: the Master view computes masterItems.
renderMasterItems(onlyHighPriority) ==
    /\ lastOp = "init"
    /\ masterView' = masterItems(history, onlyHighPriority)
    /\ history' = spreadThenSort(history, sortNewestFirst(history))
    /\ input' = [filter |-> onlyHighPriority]
    /\ lastOp' = IF onlyHighPriority THEN "masterItemsFiltered" ELSE "masterItems"
    /\ UNCHANGED <<phase, storage, events, selectedHistoryId, loading,
                   error, captured, clock, pending, historyIs, output>>

\* index.tsx: updateEventGlobal(event, added), called with any arguments.
callUpdateEventGlobal(event, added) ==
    /\ lastOp = "init"
    /\ updateEventGlobalStep(event, added)
    /\ lastOp' = "updateEventGlobal"
    /\ UNCHANGED <<masterView, pending, historyIs, input, output>>

\* part_000: updateItemGlobal(item, read) as one step.
updateItemGlobalStep(item, read) ==
    /\ history' = updateItemGlobal(history, item, read)
    /\ storage' = setItem(history')
    /\ UNCHANGED <<phase, events, selectedHistoryId, loading, error, captured, clock>>

callUpdateItemGlobal(item, read) ==
    /\ lastOp = "init"
    /\ updateItemGlobalStep(item, read)
    /\ lastOp' = "updateItemGlobal"
    /\ UNCHANGED <<masterView, pending, historyIs, input, output>>

NextStored ==
    \/ \E hidePastEvents \in BOOLEAN, now \in ReferenceTimes :
          renderMasterEvents(hidePastEvents, now)
    \/ \E onlyHighPriority \in BOOLEAN : renderMasterItems(onlyHighPriority)
    \/ \E event \in UpdateRecords, added \in BOOLEAN : callUpdateEventGlobal(event, added)
    \/ \E item \in UpdateRecords, read \in BOOLEAN : callUpdateItemGlobal(item, read)

SpecStored == InitStored /\ [][NextStored]_vars

---------------------------------------------------------------------------
(* Properties of the consolidated view (under SpecStored)                 *)

\* Every record of every stored session.
storedRecords == Range(allRecords(history))

eventsViewShown == lastOp \in {"masterEvents", "masterEventsFiltered"}
itemsViewShown  == lastOp \in {"masterItems", "masterItemsFiltered"}

\* The flag of each consolidated record is set exactly when the flag of some
\* stored record of its signature is.
FlagIsOr(sig(_)) ==
    \A i \in DOMAIN masterView :
        IsAdded(masterView[i]) <=>
            \E r \in storedRecords : sig(r) = sig(masterView[i]) /\ IsAdded(r)

\* C1: for every stored history, in whatever order its sessions are stored
\* and whichever of them carry the true flag, the flag of each record of the
\* consolidated view (events and news alike) is the logical OR of the flags
\* of all stored records with the same signature.
ConsolidatedFlagIsOr ==
    /\ eventsViewShown => FlagIsOr(getEventSignature)
    /\ itemsViewShown => FlagIsOr(getNewsSignature)

\* The older of two sessions is stored first and alone carries the true flag
\* of a shared signature; the view shows the flag set.
OlderFlagReachesView ==
    /\ lastOp = "masterEvents"
    /\ Len(history) = 2
    /\ history[1].id < history[2].id
    /\ Len(history[1].events) = 1 /\ Len(history[2].events) = 1
    /\ getEventSignature(history[1].events[1]) = getEventSignature(history[2].events[1])
    /\ IsAdded(history[1].events[1])
    /\ history[2].events[1].addedToCalendar = "F"
    /\ Len(masterView) = 1
    /\ IsAdded(masterView[1])

\* The positions in history of the sessions that hold a record of the
\* signature of r, and among them the one with the largest id.
holders(sig(_), r) ==
    { i \in DOMAIN history :
        \E k \in DOMAIN history[i].events : sig(history[i].events[k]) = sig(r) }
newestHolder(sig(_), r) ==
    CHOOSE i \in holders(sig, r) :
        \A j \in holders(sig, r) : history[j].id <= history[i].id

ContentIsNewest(sig(_)) ==
    \A i \in DOMAIN masterView :
        \E k \in DOMAIN history[newestHolder(sig, masterView[i])].events :
            LET r == history[newestHolder(sig, masterView[i])].events[k]
            IN  sig(r) = sig(masterView[i]) /\ Content(r) = Content(masterView[i])

\* C2: for every stored history with distinct session ids, the non-flag
\* content of each consolidated record is the content of a record of its
\* signature in the session with the largest id among those that hold the
\* signature, wherever that session is stored in the list.
ConsolidatedContentIsNewest ==
    /\ eventsViewShown => ContentIsNewest(getEventSignature)
    /\ itemsViewShown => ContentIsNewest(getNewsSignature)

\* The newer of two sessions is stored last, the two disagree on the text of
\* a shared signature, and the view shows the newer text.
NewerContentStoredLast ==
    /\ lastOp = "masterEvents"
    /\ Len(history) = 2
    /\ history[1].id < history[2].id
    /\ Len(history[1].events) = 1 /\ Len(history[2].events) = 1
    /\ getEventSignature(history[1].events[1]) = getEventSignature(history[2].events[1])
    /\ Content(history[1].events[1]) # Content(history[2].events[1])
    /\ Len(masterView) = 1
    /\ Content(masterView[1]) = Content(history[2].events[1])

OnePerSignature(sig(_)) ==
    /\ \A i, j \in DOMAIN masterView :
          sig(masterView[i]) = sig(masterView[j]) => i = j
    /\ { sig(masterView[i]) : i \in DOMAIN masterView }
          = { sig(r) : r \in storedRecords }

\* C3: with no filter of the view active, the consolidated view holds
\* exactly one record for each distinct signature that occurs in a stored
\* session: no signature twice, none missing.
ConsolidatedOnePerSignature ==
    /\ lastOp = "masterEvents" => OnePerSignature(getEventSignature)
    /\ lastOp = "masterItems" => OnePerSignature(getNewsSignature)

\* Four stored records of two signatures are shown as two.
FourRecordsTwoRows ==
    /\ lastOp = "masterEvents"
    /\ Len(allRecords(history)) = 4
    /\ Len(masterView) = 2

---------------------------------------------------------------------------
(* Properties of the scan and of the flag updates (under Spec)            *)

\* The step in which a pending scan commits its session.
scanCommits == loading /\ lastOp' = "scanCommitted"

\* C4: every mutating operation applies its change to the history as it is
\* when the operation commits: the commit of a scan puts its new session in
\* front of the history of that moment, toggles, deletions and the clearing
\* done while the generator call was pending included, and persists that.
ScanCommitKeepsPendingChanges ==
    [][scanCommits =>
          /\ Tail(history') = history
          /\ storage' = setItem(history')]_vars

\* The id of the session created by the scan whose results the Scanner view
\* shows: the commit names its session by the clock, and the next scan
\* empties the view before it moves the clock.
owningSessionId == clock

\* C5: a toggle of the i-th card of the Scanner view changes the flag of the
\* i-th record of the owning session and nothing else in the history: no
\* record of another session changes.
ScannerToggleStaysInOwningSession ==
    [][\A idx \in 1..2 :
          toggleScannerCard(idx) =>
              /\ Len(history') = Len(history)
              /\ \A k \in DOMAIN history :
                    IF history[k].id = owningSessionId
                    THEN /\ history'[k].id = history[k].id
                         /\ Len(history'[k].events) = Len(history[k].events)
                         /\ \A j \in DOMAIN history[k].events :
                               \/ history'[k].events[j] = history[k].events[j]
                               \/ /\ j = idx
                                  /\ Content(history'[k].events[j])
                                        = Content(history[k].events[j])
                    ELSE history'[k] = history[k]]_vars

\* Session t has the id, the date, the number of records and, record by
\* record, the non-flag content of session s.
sameButFlags(s, t) ==
    /\ t.dateStr = s.dateStr
    /\ Len(t.events) = Len(s.events)
    /\ \A k \in DOMAIN s.events : Content(t.events[k]) = Content(s.events[k])

\* C6: across every operation a session that stays in the history keeps its
\* id, its records in number and in order and the non-flag content of each;
\* only flags change.  The same holds between the history and the copy a
\* pending scan will commit.
SessionsKeepTheirContent ==
    [][/\ \A i \in DOMAIN history, j \in DOMAIN history' :
             history[i].id = history'[j].id => sameButFlags(history[i], history'[j])
       /\ \A i \in DOMAIN history, j \in DOMAIN captured :
             history[i].id = captured[j].id => sameButFlags(history[i], captured[j])]_vars

\* The Scanner view shows two records, its toggle reached a stored session of
\* one record, and that session still has its one record.
ToggleBeyondSessionEnd ==
    /\ lastOp = "toggleScannerCard"
    /\ Len(events) = 2
    /\ IsAdded(events[2])
    /\ Len(history) = 1
    /\ Len(history[1].events) = 1

\* History g is history h but for the flags of the records of the signature
\* of r, which are all v.
globalFrame(h, g, sig(_), r, v) ==
    /\ Len(g) = Len(h)
    /\ \A i \in DOMAIN h :
          /\ g[i].id = h[i].id
          /\ g[i].dateStr = h[i].dateStr
          /\ Len(g[i].events) = Len(h[i].events)
          /\ \A k \in DOMAIN h[i].events :
                IF sig(h[i].events[k]) = sig(r)
                THEN /\ g[i].events[k].addedToCalendar = FlagOf(v)
                     /\ Content(g[i].events[k]) = Content(h[i].events[k])
                ELSE g[i].events[k] = h[i].events[k]

persisted == storage.present /\ parseHistory(storage.blob) = history

\* C7: a global flag update (r, v) sets the flag to v on every stored record
\* of the signature of r, in every session, and leaves alone the flags of
\* the other records, the non-flag content of every record, the sessions
\* without a match, and the set and order of sessions; what it persists is
\* the resulting history.
GlobalUpdateFrame ==
    [][\A r \in UpdateRecords, v \in BOOLEAN :
          /\ updateEventGlobalStep(r, v) =>
                globalFrame(history, history', getEventSignature, r, v) /\ persisted'
          /\ updateItemGlobalStep(r, v) =>
                globalFrame(history, history', getNewsSignature, r, v) /\ persisted']_vars

\* A global update cleared the flags of one signature in two sessions, next
\* to a record of another signature whose flag stayed set.
UpdateReachedTwoSessions ==
    /\ lastOp = "updateEventGlobal"
    /\ Len(history) = 2
    /\ Len(history[1].events) = 2 /\ Len(history[2].events) = 1
    /\ getEventSignature(history[1].events[1]) = getEventSignature(history[2].events[1])
    /\ getEventSignature(history[1].events[2]) # getEventSignature(history[2].events[1])
    /\ history[1].events[1].addedToCalendar = "F"
    /\ history[2].events[1].addedToCalendar = "F"
    /\ IsAdded(history[1].events[2])
    /\ persisted

\* C8: applying the global flag update (r, v) a second time changes neither
\* the history in memory nor the persisted one.
GlobalUpdateIdempotent ==
    [][\A r \in UpdateRecords, v \in BOOLEAN :
          /\ updateEventGlobalStep(r, v) =>
                /\ updateEventGlobal(history', r, v) = history'
                /\ setItem(updateEventGlobal(history', r, v)) = storage'
          /\ updateItemGlobalStep(r, v) =>
                /\ updateItemGlobal(history', r, v) = history'
                /\ setItem(updateItemGlobal(history', r, v)) = storage']_vars

\* A global update by headline cleared every flag of two sessions, and
\* setting them would persist another history.
UpdateClearedTwoSessions ==
    /\ lastOp = "updateItemGlobal"
    /\ Len(history) = 2
    /\ \A i \in 1..2 : \A k \in DOMAIN history[i].events :
          /\ getNewsSignature(history[i].events[k]) = getNewsSignature(recordOfAtom("R1"))
          /\ history[i].events[k].addedToCalendar = "F"
    /\ storage # setItem(updateItemGlobal(history, recordOfAtom("R1"), TRUE))

\* Whether the two strategies turn the text into a non-empty JSON array.
usableArray(textResponse) ==
    /\ extractEvents(textResponse).kind = "array"
    /\ Len(extractEvents(textResponse).items) > 0

\* The step in which a scan ends in failure: the call rejects, or its text
\* gives no usable array.
scanEndsInFailure ==
    \/ generateContentRejected
    \/ \E textResponse \in ResponseTexts :
          ~usableArray(textResponse) /\ generateContentResolved(textResponse)

\* C9: when a scan ends in failure, the history in memory and the persisted
\* blob are what they were just before, an error message is set and the
\* loading state is cleared.
FailedScanChangesNothing ==
    [][scanEndsInFailure =>
          /\ history' = history
          /\ storage' = storage
          /\ error' # ""
          /\ ~loading']_vars

\* C10: a scan creates a session exactly when its text gives a non-empty
\* JSON array; for every other text, a JSON string or object included, it
\* reports an error and creates no session.
CommitOnlyForNonEmptyArray ==
    [][\A textResponse \in ResponseTexts :
          generateContentResolved(textResponse) =>
              IF usableArray(textResponse)
              THEN clock \in SessionIds(history')
              ELSE /\ clock \notin SessionIds(history')
                   /\ error' # ""]_vars

---------------------------------------------------------------------------
(* Properties of the scan's life and of the loading of the history        *)

\* C11: at most one scan is in progress at any time, and the loading state
\* is true exactly while one is: from the start of scanEvents until its
\* success or failure handling has run.
OneScanAtATime ==
    /\ pending \in {0, 1}
    /\ loading <=> pending = 1

\* A second scan runs after the first one has committed its session.
SecondScanAfterFirst ==
    /\ lastOp = "scanEvents"
    /\ clock = 3
    /\ loading
    /\ Len(history) = 1

\* C14: after the history is loaded from a blob that is absent, is no JSON
\* or denotes no session list (null, an object), the history in memory is
\* the empty list and the application goes on running.
CorruptBlobLoadsEmpty ==
    (lastOp = "loadHistory" /\ ~(storage.present /\ blobKind(storage.blob) = "array"))
        => /\ historyIs = "array"
           /\ history = <<>>
           /\ phase = "ready"

---------------------------------------------------------------------------
(* Order of the consolidated view                                          *)

\* The rows of the view shown are in ascending order of the start instant
\* the date extractor gives their date texts at the reference time `now`.
orderedByStart(now) ==
    \A i \in 1..(Len(masterView) - 1) :
        dateInfo(masterView[i].date, now).start
            <= dateInfo(masterView[i + 1].date, now).start

\* C12: the consolidated view is in ascending order of the start instants
\* the date extractor computes from the records' date texts, in the events
\* view and in the news view.
ConsolidatedOrderedByStart ==
    /\ eventsViewShown => orderedByStart(input.now)
    /\ itemsViewShown => \A now \in ReferenceTimes : orderedByStart(now)

---------------------------------------------------------------------------
(* Calls of the functions on records and date texts                        *)
(* A call returns [returned |-> value] or throws: [threw |-> "TypeError"]. *)

\* event.title.toLowerCase(), event.date.toLowerCase(): a method read on
\* undefined throws a TypeError.
getEventSignatureThrows(event) == ~({"title", "date"} \subseteq DOMAIN event)
getNewsSignatureThrows(item) == "title" \notin DOMAIN item

\* The memo of masterEvents / masterItems calls the signature of every
\* stored record.
masterEventsThrows(h) ==
    \E k \in DOMAIN allRecords(h) : getEventSignatureThrows(allRecords(h)[k])
masterItemsThrows(h) ==
    \E k \in DOMAIN allRecords(h) : getNewsSignatureThrows(allRecords(h)[k])

\* Variant of the link builder that marks the record it is given.
markedEvent(event) ==
    [f \in DOMAIN event \cup {"addedToCalendar"} |->
        IF f = "addedToCalendar" THEN "T" ELSE event[f]]

\* The record openGoogleCalendar was given, after the call: the function
\* reads its fields and assigns none.
linkedEvent(event) == event

\* openGoogleCalendar(event): true when the link was opened, false when the
\* try block threw, which parseEventDateInfo(event.date) does on a record
\* without a date.
openGoogleCalendar(event) == "date" \in DOMAIN event

\* Texts of titles and dates that differ in case, punctuation and spaces.
TxtPitchNightBang ==
    <<"P","i","t","c","h"," ","N","i","g","h","t","!","!">>
TxtPitchNight == <<"p","i","t","c","h"," ","n","i","g","h","t">>
TxtPitchDay   == <<"P","i","t","c","h","-","D","a","y">>
TxtEte1       == <<"É","t","é"," ","1">>
Txt15NovCaps  == <<"1","5"," ","N","O","V",".">>

SampleTitles == {TxtPitchNightBang, TxtPitchNight, TxtPitchDay, TxtEte1, <<>>}
SampleDates  == {Txt15Nov, Txt15NovCaps}

\* Records as the generator writes them: every field, or some field left out.
FullEvents ==
    { [title |-> t, date |-> d, description |-> TxtOld, addedToCalendar |-> "U"] :
        t \in SampleTitles, d \in SampleDates }
withoutField(e, f) == [x \in DOMAIN e \ {f} |-> e[x]]
PartialEvents ==
    { withoutField(recordOfAtom("R1"), "title"),
      withoutField(recordOfAtom("R1"), "date"),
      withoutField(withoutField(recordOfAtom("R1"), "title"), "date") }

\* The digits a time occurrence may hold.
HourTexts    == { <<"0">>, <<"9">>, <<"0","9">>, <<"2","2">>, <<"2","3">>,
                  <<"2","5">>, <<"3","0">>, <<"9","9">> }
MinuteTexts  == { <<>>, <<"3","0">>, <<"7","5">> }
EndHourTexts == { <<"0","2">>, <<"9">>, <<"2","3">>, <<"5","0">> }

TxtCeSoir  == <<"c","e"," ","s","o","i","r">>
Txt24OctSp == <<"2","4"," ","o","c","t",","," ">>

\* Date texts with no, one and two time occurrences.
OneTimeTexts ==
    { Txt15Nov \o <<" ">> \o h \o <<"h">> \o m : h \in HourTexts, m \in MinuteTexts }
TwoTimeTexts ==
    { Txt24OctSp \o h \o <<"h">> \o m \o <<"-">> \o e \o <<"h">> :
        h \in HourTexts, m \in MinuteTexts, e \in EndHourTexts }
\* Date texts with a time before the day, without day and month, and with
\* words that hold the letters of a month.
Txt9h15Nov     == <<"9","h"," ","1","5"," ","n","o","v">>
Txt18h30Le3Dec == <<"1","8","h","3","0"," ","l","e"," ","3"," ","d","e","c">>
TxtReunion14h  == <<"r","é","u","n","i","o","n"," ","à"," ","1","4","h">>
TxtReunion25h  == <<"r","é","u","n","i","o","n"," ","à"," ","2","5","h">>
TxtDemain14h   == <<"d","e","m","a","i","n"," ","1","4","h">>
TxtMardi12Nov  == <<"m","a","r","d","i"," ","1","2"," ","n","o","v">>
TxtJeudi24Oct  == <<"J","e","u","d","i"," ","2","4"," ","O","c","t">>
TxtDemain3Dec  == <<"d","e","m","a","i","n"," ","3"," ","d","e","c">>
WordedTexts ==
    { Txt9h15Nov, Txt18h30Le3Dec, TxtReunion14h, TxtReunion25h, TxtDemain14h,
      TxtMardi12Nov, TxtJeudi24Oct, TxtDemain3Dec }

CallDateTexts ==
    {Txt15Nov, TxtCeSoir} \cup OneTimeTexts \cup TwoTimeTexts \cup WordedTexts

\* What a call is given: a record (and a second one stored beside it), or a
\* date text and the time of the call.
\* Histories of two sessions, newest first, and the toggles the History
\* view's handler may be called with: any index, value and selection.
ToggleHistories ==
    { << [id |-> 2, dateStr |-> 2, events |-> a],
         [id |-> 1, dateStr |-> 1, events |-> b] >> : a, b \in SessionLists }
ToggleInputs ==
    { [eventIndex |-> i, added |-> v, selected |-> sel, stored |-> h] :
        i \in 1..3, v \in BOOLEAN, sel \in {NoSelection, 1, 2}, h \in ToggleHistories }

CallInputs ==
    { [event |-> e, other |-> o] : e \in FullEvents \cup PartialEvents, o \in FullEvents }
    \cup { [dateStr |-> d, now |-> now] : d \in CallDateTexts, now \in ReferenceTimes }
    \cup ToggleInputs

InitCalls ==
    /\ input \in CallInputs
    /\ history = IF "event" \in DOMAIN input
                 THEN << [id |-> 0 - 1, dateStr |-> 0 - 1,
                          events |-> <<input.event, input.other>>] >>
                 ELSE IF "stored" \in DOMAIN input THEN input.stored
                 ELSE <<>>
    /\ storage = setItem(history)
    /\ events = IF history = <<>> THEN <<>> ELSE history[1].events
    /\ phase = "ready"
    /\ selectedHistoryId =
           IF "selected" \in DOMAIN input THEN input.selected ELSE NoSelection
    /\ loading = FALSE
    /\ error = ""
    /\ captured = <<>>
    /\ clock = 1
    /\ lastOp = "init"
    /\ masterView = <<>>
    /\ pending = 0
    /\ historyIs = "array"
    /\ output = <<>>

callFrame ==
    UNCHANGED <<phase, selectedHistoryId, loading, error, captured, clock,
                masterView, pending, historyIs, input>>

callGetEventSignature ==
    /\ lastOp = "init"
    /\ "event" \in DOMAIN input
    /\ output' = IF getEventSignatureThrows(input.event)
                 THEN [threw |-> "TypeError"]
                 ELSE [returned |-> getEventSignature(input.event)]
    /\ lastOp' = "getEventSignature"
    /\ UNCHANGED <<history, storage, events>>
    /\ callFrame

callGetNewsSignature ==
    /\ lastOp = "init"
    /\ "event" \in DOMAIN input
    /\ output' = IF getNewsSignatureThrows(input.event)
                 THEN [threw |-> "TypeError"]
                 ELSE [returned |-> getNewsSignature(input.event)]
    /\ lastOp' = "getNewsSignature"
    /\ UNCHANGED <<history, storage, events>>
    /\ callFrame

callMasterEvents(now) ==
    /\ lastOp = "init"
    /\ "event" \in DOMAIN input
    /\ output' = IF masterEventsThrows(history)
                 THEN [threw |-> "TypeError"]
                 ELSE [returned |-> masterEvents(history, FALSE, now)]
    /\ lastOp' = "masterEvents"
    /\ UNCHANGED <<history, storage, events>>
    /\ callFrame

callMasterItems ==
    /\ lastOp = "init"
    /\ "event" \in DOMAIN input
    /\ output' = IF masterItemsThrows(history)
                 THEN [threw |-> "TypeError"]
                 ELSE [returned |-> masterItems(history, FALSE)]
    /\ lastOp' = "masterItems"
    /\ UNCHANGED <<history, storage, events>>
    /\ callFrame

\* The record handed to openGoogleCalendar is the object the history and
\* the current-scan list hold.
callOpenGoogleCalendar ==
    /\ lastOp = "init"
    /\ "event" \in DOMAIN input
    /\ output' = [returned |-> openGoogleCalendar(input.event)]
    /\ history' = [history EXCEPT ![1].events[1] = linkedEvent(input.event)]
    /\ events' = [events EXCEPT ![1] = linkedEvent(input.event)]
    /\ UNCHANGED storage
    /\ lastOp' = "openGoogleCalendar"
    /\ callFrame

callParseEventDateInfo ==
    /\ lastOp = "init"
    /\ "dateStr" \in DOMAIN input
    /\ output' = [returned |-> parseEventDateInfo(input.dateStr, input.now)]
    /\ lastOp' = "parseEventDateInfo"
    /\ UNCHANGED <<history, storage, events>>
    /\ callFrame

\* updateEventInHistory(eventIndex, added, false), as the History view
\* calls it.
callUpdateEventInHistory ==
    /\ lastOp = "init"
    /\ "eventIndex" \in DOMAIN input
    /\ updateEventInHistoryStep(input.eventIndex, input.added, FALSE)
    /\ lastOp' = "updateEventInHistory"
    /\ UNCHANGED <<masterView, pending, historyIs, input, output>>

NextCalls ==
    \/ callUpdateEventInHistory
    \/ callGetEventSignature
    \/ callGetNewsSignature
    \/ \E now \in ReferenceTimes : callMasterEvents(now)
    \/ callMasterItems
    \/ callOpenGoogleCalendar
    \/ callParseEventDateInfo

SpecCalls == InitCalls /\ [][NextCalls]_vars

---------------------------------------------------------------------------
(* Properties of the signatures, the link builder and the date extractor   *)

\* A field of a record, the empty text when the record has no such field.
fieldOrEmpty(e, f) == IF f \in DOMAIN e THEN e[f] ELSE <<>>

\* A text lower-cased and reduced to its characters in a-z and 0-9.
normalForm(s) == SelectSeq(toLowerCase(s), IsAZ09)

\* C13: the signature of a record is computed with a missing title, date
\* or headline treated as the empty text, and the consolidated view of a
\* history that holds such a record is computed without an error.
SignatureAndViewAreTotal ==
    /\ lastOp = "getEventSignature" =>
           /\ "returned" \in DOMAIN output
           /\ output.returned =
                  normalForm(fieldOrEmpty(input.event, "title")) \o <<"_">>
                      \o normalForm(fieldOrEmpty(input.event, "date"))
    /\ lastOp = "getNewsSignature" =>
           /\ "returned" \in DOMAIN output
           /\ output.returned = normalForm(fieldOrEmpty(input.event, "title"))
    /\ lastOp \in {"masterEvents", "masterItems"} => "returned" \in DOMAIN output

\* The call was given two records that have every field.
bothComplete ==
    /\ "event" \in DOMAIN input
    /\ {"title", "date"} \subseteq DOMAIN input.event

\* C15: two records whose defining fields are equal after lower-casing and
\* removal of every character outside a-z and 0-9 have the same signature,
\* and normalising a normalised field returns it unchanged.
EqualNormalFormsShareSignature ==
    /\ (lastOp = "getEventSignature" /\ bothComplete
          /\ normalForm(input.event.title) = normalForm(input.other.title)
          /\ normalForm(input.event.date) = normalForm(input.other.date))
         => output.returned = getEventSignature(input.other)
    /\ (lastOp = "getNewsSignature" /\ bothComplete
          /\ normalForm(input.event.title) = normalForm(input.other.title))
         => output.returned = getNewsSignature(input.other)
    /\ (lastOp \in {"getEventSignature", "getNewsSignature"} /\ bothComplete)
         => \A f \in {"title", "date"} :
                normalizeField(normalizeField(input.event[f]))
                    = normalizeField(input.event[f])

\* "Pitch Night!!" of "15 NOV." and "pitch night" of "15 nov" got one
\* signature.
PitchNightTextsCollide ==
    /\ lastOp = "getEventSignature"
    /\ bothComplete
    /\ input.event.title = TxtPitchNightBang
    /\ input.event.date = Txt15NovCaps
    /\ input.other.title = TxtPitchNight
    /\ input.other.date = Txt15Nov
    /\ output.returned = getEventSignature(input.other)

timesOfInput == timeMatches(toLowerCase(input.dateStr))

\* Midnight of the calendar day of an instant.
dayOf(t) == t - (t % 1440)

\* C19: for a date text with fewer than two time occurrences the end is
\* exactly two hours after the start, and the start is at 09:00 when the
\* text has no time occurrence, for every hour and minute the pattern
\* captures.
DefaultEndTwoHoursAfterStart ==
    (lastOp = "parseEventDateInfo" /\ Len(timesOfInput) < 2) =>
        /\ output.returned.end = output.returned.start + 120
        /\ Len(timesOfInput) = 0 =>
               /\ getHours(output.returned.start) = 9
               /\ getMinutes(output.returned.start) = 0

\* The end the second time occurrence gives on the calendar day of `start`.
endOnDayOf(start) ==
    dayOf(start) + parseInt(timesOfInput[2].g1) * 60 + parseInt(timesOfInput[2].g2)

\* C20: for a date text with two time occurrences the end is the second
\* occurrence on the start's calendar day, moved to the next day exactly
\* when that is before the start; it is never before the start and lies on
\* the start's calendar day or the day after.
ExplicitEndOnStartDayOrNext ==
    (lastOp = "parseEventDateInfo" /\ Len(timesOfInput) >= 2) =>
        /\ output.returned.end =
               IF endOnDayOf(output.returned.start) < output.returned.start
               THEN endOnDayOf(output.returned.start) + 1440
               ELSE endOnDayOf(output.returned.start)
        /\ output.returned.end >= output.returned.start
        /\ dayOf(output.returned.end) \in
               {dayOf(output.returned.start), dayOf(output.returned.start) + 1440}

---------------------------------------------------------------------------
(* Purity of the consolidated view                                         *)

---------------------------------------------------------------------------
(* The flag across later scans                                             *)

\* The consolidated events view of a history shows the signature of the
\* record r with its flag set.
shownAdded(h, r) ==
    \A now \in ReferenceTimes :
        \E i \in DOMAIN masterEvents(h, FALSE, now) :
            /\ getEventSignature(masterEvents(h, FALSE, now)[i]) = getEventSignature(r)
            /\ IsAdded(masterEvents(h, FALSE, now)[i])

\* C18: once a stored record of a signature has its flag set, the
\* consolidated view shows that signature's flag set after a later scan
\* has committed its session, whatever flags the scan's records carry.
FlagSurvivesLaterScans ==
    [][(scanCommits /\ phase' = "ready") =>
          \A k \in DOMAIN allRecords(history) :
              IsAdded(allRecords(history)[k])
                  => shownAdded(history', allRecords(history)[k])]_vars

---------------------------------------------------------------------------
(* Properties of the day, the month and the default day                    *)

\* The lower-cased text the extractor was called with.
cleanInput == toLowerCase(input.dateStr)

\* A time occurrence as the text of the format describes it, at index i:
\* one or two digits, "h" or ":", then two minute digits or none.  The
\* index of its last character, 0 when there is none.
writtenTimeEnd(s, i) ==
    IF i <= Len(s) /\ IsDigit(s[i])
          /\ i + digitRun(s, i, 2) <= Len(s)
          /\ s[i + digitRun(s, i, 2)] \in {"h", ":"}
    THEN IF digitRun(s, i + digitRun(s, i, 2) + 1, 2) = 2
         THEN i + digitRun(s, i, 2) + 2
         ELSE i + digitRun(s, i, 2)
    ELSE 0

writtenTimes(s) == { i \in 1..Len(s) : writtenTimeEnd(s, i) > 0 }

inWrittenTime(s, j) ==
    \E i \in writtenTimes(s) : i <= j /\ j <= writtenTimeEnd(s, i)

\* The standalone integers 1-39 of the text outside its time occurrences.
writtenDays(s) ==
    { j \in 1..Len(s) : dayMatchAt(s, j) # <<>> /\ ~inWrittenTime(s, j) }

\* Hour and minute of the first time occurrence, 09:00 when there is none.
writtenHour(s) ==
    IF writtenTimes(s) = {} THEN 9
    ELSE parseInt(SubSeq(s, minOf(writtenTimes(s)),
                         minOf(writtenTimes(s)) + digitRun(s, minOf(writtenTimes(s)), 2) - 1))
writtenMinute(s) ==
    IF writtenTimes(s) = {} THEN 0
    ELSE IF writtenTimeEnd(s, minOf(writtenTimes(s)))
               = minOf(writtenTimes(s)) + digitRun(s, minOf(writtenTimes(s)), 2)
         THEN 0
    ELSE parseInt(SubSeq(s, writtenTimeEnd(s, minOf(writtenTimes(s))) - 1,
                         writtenTimeEnd(s, minOf(writtenTimes(s)))))

\* The months whose abbreviation stands in the text as a word of its own.
namedMonths(s) ==
    { monthTable[k].idx : k \in
        { k \in DOMAIN monthTable :
            \E i \in 1..Len(s) :
                /\ i + Len(monthTable[k].name) - 1 <= Len(s)
                /\ SubSeq(s, i, i + Len(monthTable[k].name) - 1) = monthTable[k].name
                /\ (i = 1 \/ s[i - 1] \in {" ", ","})
                /\ (i + Len(monthTable[k].name) > Len(s)
                      \/ s[i + Len(monthTable[k].name)] \in {" ", ",", "."}) } }

\* Midnight of day d of month m, in the year the extractor gives month m.
midnightOf(m, d) ==
    makeDate(IF m < input.now.month THEN input.now.year + 1 ELSE input.now.year,
             m, d, 0, 0)

\* The call parsed a date text whose first time is a time of the day.
parsedTimeOfDay ==
    /\ lastOp = "parseEventDateInfo"
    /\ writtenHour(cleanInput) <= 23
    /\ writtenMinute(cleanInput) <= 59

\* C21: the day extracted is the first standalone integer 1-39 of the text
\* that is no part of a time occurrence (one or two digits, "h" or ":", no
\* or two minute digits), also when it is written after a time and a space;
\* the digits of a time are never the day.
DayIsFirstIntegerOutsideTimes ==
    parsedTimeOfDay =>
        dayOf(output.returned.start) =
            midnightOf(detectMonth(cleanInput, input.now),
                       IF writtenDays(cleanInput) = {} THEN input.now.date + 1
                       ELSE parseInt(dayMatchAt(cleanInput, minOf(writtenDays(cleanInput)))))

\* C22: for a date text with no day and no month abbreviation the start is
\* on the day after the reference date, at the time of the first time
\* occurrence, or at 09:00 when the text has none.
NoDayNoMonthStartsTomorrow ==
    (lastOp = "parseEventDateInfo"
        /\ writtenDays(cleanInput) = {} /\ namedMonths(cleanInput) = {}) =>
        /\ dayOf(output.returned.start) =
               makeDate(input.now.year, input.now.month, input.now.date + 1, 0, 0)
        /\ output.returned.start - dayOf(output.returned.start) =
               writtenHour(cleanInput) * 60 + writtenMinute(cleanInput)

\* The day the extractor takes for the text, tomorrow when it finds none.
extractedDay ==
    IF dayMatches(strWithoutTimes(cleanInput)) = <<>> THEN input.now.date + 1
    ELSE parseInt(dayMatches(strWithoutTimes(cleanInput)))

\* C23: when the text names exactly one month by its abbreviation as a word
\* of its own, the start is in that month, whatever other words the text
\* holds; when it holds no abbreviation at all, in the reference month.
NamedMonthIsResolved ==
    /\ (parsedTimeOfDay /\ Cardinality(namedMonths(cleanInput)) = 1) =>
           \A m \in namedMonths(cleanInput) :
               dayOf(output.returned.start) = midnightOf(m, extractedDay)
    /\ (parsedTimeOfDay
          /\ \A k \in DOMAIN monthTable : ~includes(cleanInput, monthTable[k].name)) =>
           dayOf(output.returned.start) = midnightOf(input.now.month, extractedDay)

---------------------------------------------------------------------------
(* Properties of the deletion, the selection and the persisted history     *)

\* C24: deleting a session removes exactly the session of the given id from
\* the history in memory and from the persisted one, and leaves the other
\* sessions and their order as they were; the selection becomes the first
\* remaining session (none when the history is empty) if the deleted session
\* was the selected one, and stays otherwise.
DeleteRemovesExactlyOneSession ==
    [][\A id \in SessionIds(history) :
          deleteSession(id) =>
              /\ history' = SelectSeq(history, LAMBDA session : session.id # id)
              /\ storage'.present
              /\ parseHistory(storage'.blob) = history'
              /\ selectedHistoryId' =
                     IF selectedHistoryId # id THEN selectedHistoryId
                     ELSE IF history' = <<>> THEN NoSelection
                     ELSE history'[1].id]_vars

\* The older, selected session of two was deleted: the newer one is left
\* and selected.
OlderSelectedSessionDeleted ==
    /\ lastOp = "deleteHistoryItem"
    /\ Len(history) = 1
    /\ history[1].id = clock
    /\ selectedHistoryId = clock
    /\ storage = setItem(history)

\* C28: the selected session id is null or the id of a session of the
\* history, in every state: after loads, scans, scans that commit after a
\* deletion made while they were pending, deletions and the clearing.
SelectionIsNullOrPresent ==
    selectedHistoryId = NoSelection \/ selectedHistoryId \in SessionIds(history)

\* A scan committed after the selected session was deleted while the scan
\* was pending: the deleted session is back, nothing is selected.
CommitAfterDeletionWhilePending ==
    /\ lastOp = "scanCommitted"
    /\ phase = "ready"
    /\ Len(history) = 2
    /\ selectedHistoryId = NoSelection

\* The history the persisted blob deserialises to, an absent key counting
\* as the empty list, is the history in memory.
blobIsHistory ==
    IF storage.present
    THEN blobKind(storage.blob) = "array" /\ parseHistory(storage.blob) = history
    ELSE history = <<>>

\* C27: after every mutating operation (the commit of a scan, a toggle of
\* a card, a global flag update, the deletion of a session, the clearing),
\* in any order and with a scan pending or not, the persisted blob
\* deserialises to the history in memory.
PersistedIsHistoryAfterMutation ==
    [][lastOp' \in {"scanCommitted", "toggleScannerCard", "toggleHistoryCard",
                    "toggleMasterRow", "deleteHistoryItem", "clearHistory"}
          => blobIsHistory']_vars

\* A card was toggled while a scan was pending, and the blob holds the
\* history with the flag set.
ToggledWhilePendingIsPersisted ==
    /\ lastOp = "toggleHistoryCard"
    /\ loading
    /\ history # <<>>
    /\ IsAdded(history[1].events[1])
    /\ blobIsHistory

\* The session the latest scan created.
owningSession ==
    history[CHOOSE k \in DOMAIN history : history[k].id = owningSessionId]

\* C30: while the Scanner view shows the records of the latest scan and the
\* session that scan created is in the history, the flag of each record
\* shown is the flag stored at the same index of that session, after
\* toggles from the Scanner, History and Master views.
ScannerFlagsMatchOwningSession ==
    (phase = "ready" /\ events # <<>> /\ owningSessionId \in SessionIds(history)) =>
        \A i \in DOMAIN events :
            /\ i \in DOMAIN owningSession.events
            /\ IsAdded(events[i]) = IsAdded(owningSession.events[i])

---------------------------------------------------------------------------
(* Properties of the toggles of the History and Master views               *)

\* C25: a toggle from the History view with index i and value v sets the
\* flag of the i-th record of the selected session to v and changes nothing
\* else: not the record's content, not another record, not another session
\* (one that holds the same signature included), not the order of sessions;
\* with i outside the session's list or with no session selected nothing
\* changes and no record is added.
HistoryToggleChangesOneFlag ==
    [][lastOp' = "updateEventInHistory" =>
          /\ Len(history') = Len(history)
          /\ \A s \in DOMAIN history :
                /\ history'[s].id = history[s].id
                /\ history'[s].dateStr = history[s].dateStr
                /\ Len(history'[s].events) = Len(history[s].events)
                /\ \A k \in DOMAIN history[s].events :
                      IF history[s].id = selectedHistoryId /\ k = input.eventIndex
                      THEN /\ history'[s].events[k].addedToCalendar = FlagOf(input.added)
                           /\ Content(history'[s].events[k]) = Content(history[s].events[k])
                      ELSE history'[s].events[k] = history[s].events[k]]_vars

\* The older session was selected and its first record toggled on; the
\* newer session holds a record of the same signature, still off.
OlderSessionToggledNewerAlone ==
    /\ lastOp = "updateEventInHistory"
    /\ input.selected = 1
    /\ input.eventIndex = 1
    /\ input.added
    /\ ~IsAdded(input.stored[2].events[1])
    /\ IsAdded(history[2].events[1])
    /\ ~IsAdded(history[1].events[1])
    /\ getEventSignature(history[1].events[1]) = getEventSignature(history[2].events[1])

\* The rows of `view` that carry the signature of r.
rowsOf(view, signature(_), r) ==
    { q \in Range(view) : signature(q) = signature(r) }

\* After the Master button of row r: the view has the row with the flag
\* inverted, and every stored record of the signature carries that value.
invertedEverywhere(g, view, signature(_), r) ==
    /\ rowsOf(view, signature, r) # {}
    /\ \A q \in rowsOf(view, signature, r) : IsAdded(q) = ~IsAdded(r)
    /\ \A i \in DOMAIN g : \A k \in DOMAIN g[i].events :
          signature(g[i].events[k]) = signature(r) =>
              g[i].events[k].addedToCalendar = FlagOf(~IsAdded(r))

\* C26: the button of a row r of the consolidated view calls the global
\* update with (r, not r's flag); after it the consolidated view shows the
\* signature of r with the negation of the flag it showed, and every stored
\* record of that signature, in every session, carries the new value.
MasterToggleInverts ==
    [][/\ \A now \in ReferenceTimes :
             \A r \in Range(masterEvents(history, FALSE, now)) :
                 updateEventGlobalStep(r, ~IsAdded(r)) =>
                     invertedEverywhere(history', masterEvents(history', FALSE, now),
                                        getEventSignature, r)
       /\ \A r \in Range(masterItems(history, FALSE)) :
             updateItemGlobalStep(r, ~IsAdded(r)) =>
                 invertedEverywhere(history', masterItems(history', FALSE),
                                    getNewsSignature, r)]_vars

\* Two sessions held the same record, cleared in one and never set in the
\* other, so the view showed it off; the button set it in both.
MasterToggleSetBothSessions ==
    /\ lastOp = "updateEventGlobal"
    /\ Len(history) = 2
    /\ \A i \in 1..2 :
          /\ Len(history[i].events) = 1
          /\ Content(history[i].events[1]) = Content(recordOfAtom("R2"))
          /\ history[i].events[1].addedToCalendar = "T"
    /\ \A now \in ReferenceTimes :
          \A q \in Range(masterEvents(history, FALSE, now)) : IsAdded(q)

---------------------------------------------------------------------------
(* Property of the two consolidations                                      *)

\* The two signatures group the stored records of h the same way.
sameGrouping(h) ==
    \A a, b \in Range(allRecords(h)) :
        (getEventSignature(a) = getEventSignature(b))
            <=> (getNewsSignature(a) = getNewsSignature(b))

\* The content and the truth of the flag of each row of a view.
rowsShown(view) == { <<Content(q), IsAdded(q)>> : q \in Range(view) }

\* C29: on a history of distinct session ids whose records the two
\* signatures group the same way, the consolidation of index.tsx and the one
\* of part_000 show the same rows: for each signature the same content and
\* the same flag, also when one session holds two records of one signature
\* with different content.
ConsolidationsAgree ==
    sameGrouping(history) =>
        \A now \in ReferenceTimes :
            rowsShown(masterEvents(history, FALSE, now))
                = rowsShown(masterItems(history, FALSE))

============================================================================
